---- MODULE Spec2Model ----
(***************************************************************************)
(* State-machine model of app.py: the stub speaker-embedding web UI.       *)
(*                                                                         *)
(* Representation                                                          *)
(*   - Python None is the empty tuple <<>>; a present value v of an        *)
(*     Optional number is <<v>>; an audio path is the non-empty tuple of   *)
(*     its components, so os.path.basename is its last component.          *)
(*   - Seconds typed into the gr.Number boxes are whole numbers; a float   *)
(*     n is rendered by an f-string as "n.0".                              *)
(*   - A float of compare_speakers is a fixed-point number in units of     *)
(*     1/Scale (5 decimals), one decimal more than the report prints.      *)
(*   - Texts are ASCII stand-ins for the Chinese literals of the source,   *)
(*     one distinct stand-in per literal.                                  *)
(*   - np.random is the only nondeterminism: randn is a draw of a seed,    *)
(*     uniform a draw of a fixed-point value.                              *)
(*   - An ndarray is the one-element tuple of a record of its shape, dtype *)
(*     and buffer, so that it compares with None.                          *)
(***************************************************************************)
EXTENDS Integers, Sequences, FiniteSets, TLC

VARIABLES
    audio_input,          \* gr.Audio of the extraction tab: None or a path
    window_type,          \* gr.Radio: "whole" or "sliding"
    duration,             \* gr.Number value: None or <<seconds>>
    step,                 \* gr.Number value: None or <<seconds>>
    duration_visible,     \* visible flag of the duration box
    step_visible,         \* visible flag of the step box
    output_info,          \* gr.Markdown fed by process_audio
    embedding_output,     \* gr.Dataframe fed by process_audio
    process_audio_call,   \* arguments of the latest process_audio call
    audio1,               \* gr.Audio of speaker 1
    audio2,               \* gr.Audio of speaker 2
    comparison_result,    \* gr.Markdown fed by compare_speakers
    compare_speakers_call \* arguments and locals of the latest compare_speakers call

extract_vars == <<audio_input, window_type, duration, step, duration_visible,
                  step_visible, output_info, embedding_output, process_audio_call>>
compare_vars == <<audio1, audio2, comparison_result, compare_speakers_call>>
vars == <<extract_vars, compare_vars>>

-----------------------------------------------------------------------------
(* Bounds of the model *)

\* the gr.Number boxes hold None or 0..MaxSeconds
MaxSeconds == 3
\* number of distinct outcomes of np.random.randn
NumSeeds == 2
\* np.random.uniform is drawn within Radius units of each end of its range
\* and of the verdict threshold
Radius == 6

-----------------------------------------------------------------------------
(* Values *)

None == <<>>

Some(v) == <<v>>

\* uploaded or recorded files, as gradio hands them over (type="filepath")
AudioPaths == {<<"tmp", "gradio", "a.wav">>, <<"tmp", "b.wav">>}

OptionalAudio == {None} \cup AudioPaths

WindowTypes == {"whole", "sliding"}

OptionalSeconds == {None} \cup {Some(n) : n \in 0..MaxSeconds}

Seeds == 1..NumSeeds

\* gr.Number(value=3.0) and gr.Number(value=1.0)
DefaultDuration == 3
DefaultStep == 1

\* os.path.basename of a path
Basename(path) == path[Len(path)]

\* Python truthiness of an Optional[float]: None and 0.0 are false
Truthy(x) == x # None /\ x[1] # 0

\* str() of a float holding a whole number, as an f-string renders it
FloatRepr(n) == ToString(n) \o ".0"

\* np.random.randn(rows, cols).astype(np.float32): an ndarray is its shape, its
\* dtype and its buffer of rows * cols values, the buffer standing as the draw
\* that filled it
RandN(rows, cols, seed) ==
    Some([shape |-> <<rows, cols>>, dtype |-> "float32", data |-> seed])

\* ndarray.shape
Shape(a) == a[1].shape

\* len() of an ndarray: the size of its first axis
ArrayLen(a) == Shape(a)[1]

\* the size of the second axis of an ndarray, the length of each of its rows
RowLen(a) == Shape(a)[2]

-----------------------------------------------------------------------------
(* load_model_info *)

LoadModelInfoWrongDim ==
    [model_name |-> "wespeaker-voxceleb-resnet34-LM",
     description |-> "WeSpeaker ResNet34 speaker embedding model, trained on VoxCeleb",
     sample_rate |-> 16000,
     embedding_dim |-> 512,
     status |-> "model loaded"]

LoadModelInfo ==
    [model_name |-> "wespeaker-voxceleb-resnet34-LM",
     description |-> "WeSpeaker ResNet34 speaker embedding model, trained on VoxCeleb",
     sample_rate |-> 16000,
     embedding_dim |-> 256,
     status |-> "model loaded"]

-----------------------------------------------------------------------------
(* process_audio *)

\* what the page shows when a handler raises: os.path.basename(None) raises
\* TypeError, and nothing in app.py catches it
Raised == [kind |-> "error", text |-> "TypeError"]

\* the text returned when audio_file is None
MissingAudioPrompt == [kind |-> "prompt", text |-> "please upload an audio file"]

\* the f-string of process_audio, one field per interpolation
InfoText(model_info, wt, d, s, audio_file, embedding) ==
    IF audio_file = None THEN Raised ELSE
    [kind |-> "report",
     model_name |-> model_info.model_name,
     sample_rate |-> model_info.sample_rate,
     embedding_dim |-> model_info.embedding_dim,
     status |-> model_info.status,
     window_type |-> wt,
     duration |-> IF Truthy(d) THEN FloatRepr(d[1]) ELSE "whole",
     step |-> IF Truthy(s) THEN FloatRepr(s[1]) ELSE "N/A",
     file |-> Basename(audio_file),
     shape |-> Shape(embedding)]

\* process_audio drawing the embedding before it looks at audio_file
ProcessAudioDrawsFirst(audio_file, wt, d, s, seed) ==
    LET model_info == LoadModelInfo
        embedding == RandN(1, 256, seed)
    IN  IF audio_file = None
        THEN <<MissingAudioPrompt, embedding>>
        ELSE <<InfoText(model_info, wt, d, s, audio_file, embedding), embedding>>

\* process_audio(audio_file, window_type, duration, step) -> <<info_text, embedding>>
ProcessAudio(audio_file, wt, d, s, seed) ==
    IF audio_file = None
    THEN <<MissingAudioPrompt, None>>
    ELSE LET model_info == LoadModelInfo
             embedding == RandN(1, 256, seed)
         IN  <<InfoText(model_info, wt, d, s, audio_file, embedding), embedding>>

-----------------------------------------------------------------------------
(* The extraction tab *)

\* the user uploads, records or clears the audio
SetAudioInput(a) ==
    /\ audio_input' = a
    /\ UNCHANGED <<window_type, duration, step, duration_visible, step_visible,
                   output_info, embedding_output, process_audio_call>>
    /\ UNCHANGED compare_vars

\* the lambda with its second update tied to the other choice
WindowTypeChangeCrossed(x) == <<x = "sliding", x = "whole">>

\* the lambda of window_type.change: one gr.update per output
WindowTypeChange(x) == <<x = "sliding", x = "sliding">>

\* the user picks a window type; the change event runs the lambda
SelectWindowType(x) ==
    /\ window_type' = x
    /\ duration_visible' = WindowTypeChange(x)[1]
    /\ step_visible' = WindowTypeChange(x)[2]
    /\ UNCHANGED <<audio_input, duration, step, output_info, embedding_output,
                   process_audio_call>>
    /\ UNCHANGED compare_vars

\* the user edits the duration box, which is possible while it is shown
SetDuration(d) ==
    /\ duration_visible
    /\ duration' = d
    /\ UNCHANGED <<audio_input, window_type, step, duration_visible, step_visible,
                   output_info, embedding_output, process_audio_call>>
    /\ UNCHANGED compare_vars

\* the user edits the step box, which is possible while it is shown
SetStep(s) ==
    /\ step_visible
    /\ step' = s
    /\ UNCHANGED <<audio_input, window_type, duration, duration_visible, step_visible,
                   output_info, embedding_output, process_audio_call>>
    /\ UNCHANGED compare_vars

\* process_btn.click keeping the embedding of an earlier call when there is one
ProcessClickCached(seed) ==
    LET r == ProcessAudio(audio_input, window_type, duration, step, seed)
    IN  /\ process_audio_call' = [kind |-> "call",
                                  audio_file |-> audio_input,
                                  window_type |-> window_type,
                                  duration |-> duration,
                                  step |-> step]
        /\ output_info' = r[1]
        /\ embedding_output' = IF embedding_output # None THEN embedding_output ELSE r[2]
        /\ UNCHANGED <<audio_input, window_type, duration, step, duration_visible,
                       step_visible>>
        /\ UNCHANGED compare_vars

\* process_btn.click: process_audio on the four inputs, into the two outputs
ProcessClick(seed) ==
    LET r == ProcessAudio(audio_input, window_type, duration, step, seed)
    IN  /\ process_audio_call' = [kind |-> "call",
                                  audio_file |-> audio_input,
                                  window_type |-> window_type,
                                  duration |-> duration,
                                  step |-> step]
        /\ output_info' = r[1]
        /\ embedding_output' = r[2]
        /\ UNCHANGED <<audio_input, window_type, duration, step, duration_visible,
                       step_visible>>
        /\ UNCHANGED compare_vars

ExtractNext ==
    \/ \E a \in OptionalAudio : SetAudioInput(a)
    \/ \E x \in WindowTypes : SelectWindowType(x)
    \/ \E d \in OptionalSeconds : SetDuration(d)
    \/ \E s \in OptionalSeconds : SetStep(s)
    \/ \E seed \in Seeds : ProcessClick(seed)

-----------------------------------------------------------------------------
(* compare_speakers *)

\* one unit of the fixed-point floats is 1/Scale
Scale == 100 * 1000

\* the arguments of np.random.uniform(0.3, 0.95)
UniformLow == (3 * Scale) \div 10
UniformHigh == (95 * Scale) \div 100

\* the 0.7 of the verdict
Threshold == (7 * Scale) \div 10

\* the values np.random.uniform(low, high) is drawn from
Uniform(low, high) ==
    UNION {{x \in (p - Radius)..(p + Radius) : low <= x /\ x <= high} :
              p \in {low, Threshold, high}}

\* the text returned when audio1 or audio2 is None
MissingPairPrompt == [kind |-> "prompt", text |-> "please upload two audio files to compare"]

\* format spec .4f: the nearest multiple of 1/10000, an exact tie going to the
\* even digit; the result counts ten-thousandths
Fmt4(x) ==
    LET q == x \div 10
        r == x % 10
    IN  IF r > 5 \/ (r = 5 /\ q % 2 = 1) THEN q + 1 ELSE q

\* the verdict with >= for >
VerdictInclusive(similarity) ==
    IF similarity >= Threshold THEN "same speaker" ELSE "different speakers"

\* the verdict taken from the similarity as printed
VerdictOnShown(similarity) ==
    IF Fmt4(similarity) * 10 > Threshold THEN "same speaker" ELSE "different speakers"

\* the conditional expression of the verdict line
Verdict(similarity) ==
    IF similarity > Threshold THEN "same speaker" ELSE "different speakers"

\* the f-string of compare_speakers, one field per interpolation
ResultText(a1, a2, similarity, distance) ==
    IF a1 = None \/ a2 = None THEN Raised ELSE
    [kind |-> "report",
     file1 |-> Basename(a1),
     file2 |-> Basename(a2),
     similarity |-> Fmt4(similarity),
     distance |-> Fmt4(distance),
     verdict |-> Verdict(similarity)]

\* the subtraction with its operands swapped
DistanceSwapped(similarity) == similarity - Scale

\* distance = 1 - similarity
Distance(similarity) == Scale - similarity

\* the guard with "and" for "or"
PairMissingBoth(a1, a2) == a1 = None /\ a2 = None

\* the guard of the early return of compare_speakers
PairMissing(a1, a2) == a1 = None \/ a2 = None

\* compare_speakers(audio1, audio2) -> <<result, similarity, distance>>, the
\* locals being None when the call returns before assigning them
CompareSpeakers(a1, a2, draw) ==
    IF PairMissing(a1, a2)
    THEN <<MissingPairPrompt, None, None>>
    ELSE LET similarity == draw
             distance == Distance(similarity)
         IN  <<ResultText(a1, a2, similarity, distance), Some(similarity), Some(distance)>>

-----------------------------------------------------------------------------
(* The comparison tab *)

\* the user uploads, records or clears the audio of speaker 1
SetAudio1(a) ==
    /\ audio1' = a
    /\ UNCHANGED <<audio2, comparison_result, compare_speakers_call>>
    /\ UNCHANGED extract_vars

\* the user uploads, records or clears the audio of speaker 2
SetAudio2(a) ==
    /\ audio2' = a
    /\ UNCHANGED <<audio1, comparison_result, compare_speakers_call>>
    /\ UNCHANGED extract_vars

\* compare_btn.click: compare_speakers on the two inputs, into the one output
CompareClick(draw) ==
    LET r == CompareSpeakers(audio1, audio2, draw)
    IN  /\ compare_speakers_call' = [kind |-> "call",
                                     audio1 |-> audio1,
                                     audio2 |-> audio2,
                                     similarity |-> r[2],
                                     distance |-> r[3]]
        /\ comparison_result' = r[1]
        /\ UNCHANGED <<audio1, audio2>>
        /\ UNCHANGED extract_vars

CompareNext ==
    \/ \E a \in OptionalAudio : SetAudio1(a)
    \/ \E a \in OptionalAudio : SetAudio2(a)
    \/ \E draw \in Uniform(UniformLow, UniformHigh) : CompareClick(draw)

-----------------------------------------------------------------------------
(* Initial state: the Blocks as constructed *)

\* a component that has not been given a value
Empty == [kind |-> "empty"]

\* no call has been made yet
NoCall == [kind |-> "none"]

Init ==
    /\ audio_input = None
    /\ window_type = "whole"
    /\ duration = Some(DefaultDuration)
    /\ step = Some(DefaultStep)
    /\ duration_visible = FALSE
    /\ step_visible = FALSE
    /\ output_info = Empty
    /\ embedding_output = None
    /\ process_audio_call = NoCall
    /\ audio1 = None
    /\ audio2 = None
    /\ comparison_result = Empty
    /\ compare_speakers_call = NoCall

SpecExtract == Init /\ [][ExtractNext]_vars

SpecCompare == Init /\ [][CompareNext]_vars

\* a session over both tabs, on one file, the seconds that differ in
\* truthiness, one embedding and the draws at the ends and at the threshold
SessionAudio == {None, <<"tmp", "gradio", "a.wav">>}
SessionSeconds == {None, Some(0), Some(DefaultDuration)}
SessionDraws == {UniformLow, Threshold, Threshold + 1, UniformHigh}

Next ==
    \/ \E a \in SessionAudio : SetAudioInput(a)
    \/ \E x \in WindowTypes : SelectWindowType(x)
    \/ \E d \in SessionSeconds : SetDuration(d)
    \/ \E s \in SessionSeconds : SetStep(s)
    \/ ProcessClick(1)
    \/ \E a \in SessionAudio : SetAudio1(a)
    \/ \E a \in SessionAudio : SetAudio2(a)
    \/ \E draw \in SessionDraws : CompareClick(draw)

Spec == Init /\ [][Next]_vars

-----------------------------------------------------------------------------
(* Properties *)

\* the latest process_audio call had a present audio_file
ExtractedPresent ==
    /\ process_audio_call.kind = "call"
    /\ process_audio_call.audio_file # None

\* the latest compare_speakers call had two present references
ComparedPresent ==
    /\ compare_speakers_call.kind = "call"
    /\ compare_speakers_call.audio1 # None
    /\ compare_speakers_call.audio2 # None

\* the latest compare_speakers call lacked a reference
ComparedMissing ==
    /\ compare_speakers_call.kind = "call"
    /\ (compare_speakers_call.audio1 = None \/ compare_speakers_call.audio2 = None)

C2_VerdictIffAboveThreshold ==
    ComparedPresent =>
        LET similarity == compare_speakers_call.similarity[1]
        IN  /\ comparison_result.kind = "report"
            /\ comparison_result.verdict = "same speaker" <=> 10 * similarity > 7 * Scale
            /\ comparison_result.verdict = "different speakers" <=> 10 * similarity <= 7 * Scale

\* C2 witness: a similarity of exactly 0.7 reported as different speakers
C2_Witness ==
    /\ ComparedPresent
    /\ 10 * compare_speakers_call.similarity[1] = 7 * Scale
    /\ comparison_result.verdict = "different speakers"

\* C3: after compare_speakers on two present references, the similarity is in
\* [0.3, 0.95] and the distance is 1 minus that similarity, so in [0.05, 0.7].
C3_DistanceIsOneMinusSimilarity ==
    ComparedPresent =>
        LET similarity == compare_speakers_call.similarity[1]
            distance == compare_speakers_call.distance[1]
        IN  /\ 100 * similarity >= 30 * Scale
            /\ 100 * similarity <= 95 * Scale
            /\ similarity + distance = Scale
            /\ 100 * distance >= 5 * Scale
            /\ 100 * distance <= 70 * Scale

\* C3 witness: the largest similarity, 0.95, with distance 0.05
C3_Witness ==
    /\ ComparedPresent
    /\ 100 * compare_speakers_call.similarity[1] = 95 * Scale
    /\ 100 * compare_speakers_call.distance[1] = 5 * Scale

\* C4: after process_audio without an audio reference, whatever the window
\* type, duration and step, the report is the missing-input prompt, no
\* embedding is returned and nothing was raised.
C4_MissingAudioPrompt ==
    (process_audio_call.kind = "call" /\ process_audio_call.audio_file = None) =>
        /\ output_info = [kind |-> "prompt", text |-> "please upload an audio file"]
        /\ embedding_output = None

\* C4 witness: a call without audio, sliding window, duration 0, step cleared
C4_Witness ==
    /\ process_audio_call.kind = "call"
    /\ process_audio_call.audio_file = None
    /\ process_audio_call.window_type = "sliding"
    /\ process_audio_call.step = None
    /\ process_audio_call.duration = Some(0)
    /\ output_info.kind = "prompt"

\* C5: after compare_speakers with the first reference, the second or both
\* absent, the result is the upload-both-files prompt, no similarity and no
\* distance were computed, and nothing was raised.
C5_MissingPairPrompt ==
    ComparedMissing =>
        /\ comparison_result =
               [kind |-> "prompt", text |-> "please upload two audio files to compare"]
        /\ compare_speakers_call.similarity = None
        /\ compare_speakers_call.distance = None

\* C5 witness: only the second reference is absent
C5_Witness ==
    /\ ComparedMissing
    /\ compare_speakers_call.audio1 # None
    /\ compare_speakers_call.audio2 = None
    /\ comparison_result.kind = "prompt"

\* the window-parameter lines of a report
WindowParams(info) == <<info.window_type, info.duration, info.step>>

\* C6 as stated: two successive process_audio calls on the same present audio
\* reference, both with window type "whole", show the same window parameters
\* whatever their duration and step.
C6_WholeIgnoresDurationStep ==
    [][(/\ process_audio_call.kind = "call"
        /\ process_audio_call'.kind = "call"
        /\ process_audio_call.audio_file # None
        /\ process_audio_call'.audio_file = process_audio_call.audio_file
        /\ process_audio_call.window_type = "whole"
        /\ process_audio_call'.window_type = "whole")
       => WindowParams(output_info') = WindowParams(output_info)]_vars

\* C7 as stated: after process_audio on a present audio reference with window
\* type "sliding" and a numeric duration and step, 0 included, the report
\* shows "sliding" and exactly the duration and the step supplied.
C7_SlidingShowsDurationStep ==
    (/\ ExtractedPresent
     /\ process_audio_call.window_type = "sliding"
     /\ process_audio_call.duration # None
     /\ process_audio_call.step # None)
    => /\ output_info.window_type = "sliding"
       /\ output_info.duration = FloatRepr(process_audio_call.duration[1])
       /\ output_info.step = FloatRepr(process_audio_call.step[1])

\* C8: in every state of the page the duration box and the step box are both
\* visible exactly when the selected window type is "sliding".
C8_VisibleIffSliding ==
    /\ duration_visible <=> window_type = "sliding"
    /\ step_visible <=> window_type = "sliding"
    /\ duration_visible = step_visible

\* C8 witness: "whole" selected again after the boxes were shown and edited
C8_Witness ==
    /\ window_type = "whole"
    /\ duration # Some(DefaultDuration)
    /\ step # Some(DefaultStep)
    /\ ~duration_visible
    /\ ~step_visible

\* the inputs of the two tabs
input_vars == <<audio_input, window_type, duration, step, duration_visible,
                step_visible, audio1, audio2>>

\* C9: every report of process_audio shows the same model info (name, 16000,
\* 256, status) whatever calls came before; a step that writes the outputs of
\* one operation leaves the outputs of the other and all inputs alone, and
\* what it writes is a result of that operation on the current inputs alone.
C9_NoSharedState ==
    [][/\ output_info'.kind = "report" =>
            /\ output_info'.model_name = "wespeaker-voxceleb-resnet34-LM"
            /\ output_info'.sample_rate = 16000
            /\ output_info'.embedding_dim = 256
            /\ output_info'.status = "model loaded"
       /\ <<output_info, embedding_output, process_audio_call>>'
              # <<output_info, embedding_output, process_audio_call>> =>
            /\ UNCHANGED compare_vars
            /\ UNCHANGED input_vars
            /\ \E seed \in Seeds :
                   <<output_info', embedding_output'>> =
                       ProcessAudio(audio_input, window_type, duration, step, seed)
       /\ <<comparison_result, compare_speakers_call>>'
              # <<comparison_result, compare_speakers_call>> =>
            /\ UNCHANGED <<output_info, embedding_output, process_audio_call>>
            /\ UNCHANGED input_vars
            /\ \E draw \in Uniform(UniformLow, UniformHigh) :
                   comparison_result' = CompareSpeakers(audio1, audio2, draw)[1]
      ]_vars

\* C9 witness: process_audio has reported on a file after compare_speakers
\* reported "same speaker" on two files
C9_Witness ==
    /\ process_audio_call.kind = "call"
    /\ output_info.kind = "report"
    /\ compare_speakers_call.kind = "call"
    /\ comparison_result.kind = "report"
    /\ comparison_result.verdict = "same speaker"

\* C10 as stated: in a report of compare_speakers on two present references,
\* "same speaker" is printed exactly when the similarity as printed is above
\* 0.7000, and exactly when the distance as printed is below 0.3000.
C10_VerdictAgreesWithShown ==
    ComparedPresent =>
        /\ comparison_result.verdict = "same speaker" <=> comparison_result.similarity > 7000
        /\ comparison_result.verdict = "same speaker" <=> comparison_result.distance < 3000

\* C10 amended: the printed verdict follows the unrounded similarity: "same
\* speaker" is printed exactly when it is above 0.7. The printed similarity is
\* then at least 0.7000 and the printed distance at most 0.3000; with
\* "different speakers" they are at most 0.7000 and at least 0.3000.
C10_VerdictFollowsUnrounded ==
    ComparedPresent =>
        LET same == comparison_result.verdict = "same speaker"
        IN  /\ same <=> 10 * compare_speakers_call.similarity[1] > 7 * Scale
            /\ same => /\ comparison_result.similarity >= 7000
                       /\ comparison_result.distance <= 3000
            /\ ~same => /\ comparison_result.similarity <= 7000
                        /\ comparison_result.distance >= 3000

\* C10 witness: a report printing similarity 0.7000 and distance 0.3000 with
\* the verdict "same speaker"
C10_Witness ==
    /\ ComparedPresent
    /\ comparison_result.similarity = 7000
    /\ comparison_result.distance = 3000
    /\ comparison_result.verdict = "same speaker"

====
